---- MODULE Spec2Model ----
(***************************************************************************)
(* SplashScreen (src/components/common/SplashScreen.tsx).                  *)
(*                                                                         *)
(* One mounted instance of the component, the browser's timer queue, the   *)
(* browser location, and the environment the render reads for theming.     *)
(* Strings the code inspects character by character (redirectTo, the      *)
(* location pathname, the hash) are sequences of one-character strings.    *)
(***************************************************************************)
EXTENDS Integers, Sequences, FiniteSets, TLC

VARIABLES
    mounted,        \* the instance is mounted
    onComplete,     \* prop: identity of the callback, or NoCallback
    redirectTo,     \* prop: [def |-> BOOLEAN, str |-> characters]
    navigate,       \* identity of the function useNavigate() returned
    timers,         \* the browser's active timers (scheduled, not fired, not cleared)
    effectTimer,    \* `timer` of the latest effect run: the handle its cleanup clears
    nextId,         \* next timer handle setTimeout returns
    location,       \* [pathname |-> characters, hash |-> characters]
    rootDark,       \* document.documentElement.classList.contains('dark')
    localStorage,   \* function from stored keys to stored strings
    prefersDark,    \* matchMedia('(prefers-color-scheme: dark)').matches
    darkClass,      \* isDarkMode of the latest render
    calls,          \* history: invocations of onComplete
    navLog,         \* history: arguments of the navigate requests, in order
    writes,         \* history: direct location writes, in order
    logs,           \* history: console.error entries
    thrown,         \* history: exceptions raised by onComplete or navigate
    escaped,        \* history: exceptions that left a timer callback
    fired,          \* history: firings of the 1500 timer
    checked,        \* history: runs of the 300 check
    changes,        \* history: dependency changes (re-runs of the effect)
    propsChanged,   \* history: onComplete or redirectTo changed since mount
    earlyUnmount,   \* history: the instance unmounted before any 1500 timer fired
    late            \* history: navigate requests and location writes after unmount

vars == <<mounted, onComplete, redirectTo, navigate, timers, effectTimer, nextId,
          location, rootDark, localStorage, prefersDark, darkClass, calls, navLog,
          writes, logs, thrown, escaped, fired, checked, changes, propsChanged,
          earlyUnmount, late>>

props == <<onComplete, redirectTo, navigate>>
env == <<rootDark, localStorage, prefersDark, darkClass>>
hist == <<calls, navLog, writes, logs, thrown, escaped, fired, checked, late>>

----------------------------------------------------------------------------
(* Bounds of the model.                                                    *)

\* dependency changes explored within one mounted lifetime
MaxChanges == 2
\* the largest amount of time one Advance step lets pass
TimeStep == 500

(* Program constants.                                                      *)

\* setTimeout(..., 1500)
Delay == 1500
\* setTimeout(..., 300)
CheckDelay == 300
\* indexOf's result for "not found"
NotFound == 0 - 1

----------------------------------------------------------------------------
(* Strings.                                                                *)

Menu == <<"m", "e", "n", "u">>
Home == <<"h", "o", "m", "e">>
\* '/home'
HomePath == <<"/">> \o Home
\* '#/home'
HomeHash == <<"#", "/">> \o Home
\* '#/'
HashPrefix == <<"#", "/">>

NoCallback == "undefined"
Callbacks == {"cb1", "cb2"}
Navigates == {"nav1", "nav2"}

Undefined == [def |-> FALSE, str |-> <<>>]
Str(s) == [def |-> TRUE, str |-> s]
RedirectValues ==
    {Undefined, Str(<<>>), Str(<<"/">>), Str(Menu), Str(<<"/">> \o Menu),
     Str(<<"/", "/">> \o Menu)}

Pathnames == {<<"/">>, <<"/">> \o Menu}

TruthyIfDefined(v) == v.def

\* JavaScript truthiness of an optional string
Truthy(v) == v.def /\ Len(v.str) > 0

RECURSIVE StripAllLeadingSlashes(_)
StripAllLeadingSlashes(s) ==
    IF Len(s) > 0 /\ s[1] = "/" THEN StripAllLeadingSlashes(SubSeq(s, 2, Len(s))) ELSE s

\* s.replace(/^\//, '')
StripLeadingSlash(s) ==
    IF Len(s) > 0 /\ s[1] = "/" THEN SubSeq(s, 2, Len(s)) ELSE s

\* s.indexOf(sub)
IndexOf(s, sub) ==
    LET hits == {i \in 0..(Len(s) - Len(sub)) : SubSeq(s, i + 1, i + Len(sub)) = sub}
    IN  IF hits = {} THEN NotFound
        ELSE CHOOSE i \in hits : \A j \in hits : i <= j

----------------------------------------------------------------------------
(* Theme.                                                                  *)

NoItems == [k \in {} |-> ""]
Stores == {NoItems} \cup {[k \in {"theme"} |-> v] : v \in {"", "dark", "light"}}

\* localStorage.getItem(key): null for a key that is not stored
GetItem(store, key) ==
    IF key \in DOMAIN store THEN [null |-> FALSE, val |-> store[key]]
    ELSE [null |-> TRUE, val |-> ""]

\* !item
Not(item) == item.null \/ item.val = ""

IsDarkModeNoNegation(root, store, prefers) ==
    root \/ (~Not(GetItem(store, "theme")) /\ prefers)

\* isDarkMode (typeof window !== 'undefined' holds in a mounted instance)
IsDarkMode(root, store, prefers) ==
    root \/ (Not(GetItem(store, "theme")) /\ prefers)

----------------------------------------------------------------------------
(* Timers.                                                                 *)

OuterTimerShort(id, oc, rt, nav) ==
    [id |-> id, kind |-> "outer", remaining |-> CheckDelay,
     onComplete |-> oc, redirectTo |-> rt, navigate |-> nav, cleanPath |-> <<>>]

OuterTimer(id, oc, rt, nav) ==
    [id |-> id, kind |-> "outer", remaining |-> Delay,
     onComplete |-> oc, redirectTo |-> rt, navigate |-> nav, cleanPath |-> <<>>]

CheckTimer(id, cleanPath) ==
    [id |-> id, kind |-> "check", remaining |-> CheckDelay,
     onComplete |-> NoCallback, redirectTo |-> Undefined, navigate |-> "nav1",
     cleanPath |-> cleanPath]

ClearTimeoutNoOp(ts, id) == ts

\* clearTimeout(id)
ClearTimeout(ts, id) == {t \in ts : t.id # id}

CleanupNoOp(ts, handle) == ts

CleanupAll(ts, handle) == {}

\* the effect's cleanup: () => clearTimeout(timer)
Cleanup(ts, handle) == ClearTimeout(ts, handle)

Min(a, b) == IF a <= b THEN a ELSE b

MinRemaining(ts) == CHOOSE r \in {t.remaining : t \in ts} : \A t \in ts : r <= t.remaining

----------------------------------------------------------------------------
(* The timer callback.                                                     *)

BranchRedirectFirst(oc, rt) ==
    IF Truthy(rt) THEN "redirect"
    ELSE IF oc # NoCallback THEN "callback"
    ELSE "default"

\* if (onComplete) ... else if (redirectTo) ... else ...
Branch(oc, rt) ==
    IF oc # NoCallback THEN "callback"
    ELSE IF Truthy(rt) THEN "redirect"
    ELSE "default"

InTryNotDefault(branch) == branch # "default"

\* the statements the try block encloses
InTry(branch) == branch \in {"callback", "redirect", "default"}

\* what navigate(to) makes of the pathname when it takes effect
Resolve(pathname, to) ==
    IF Len(to) = 0 THEN pathname
    ELSE IF to[1] = "/" THEN to
    ELSE <<"/">> \o to

UltimateFallbackRoot(loc) == [loc EXCEPT !.hash = HashPrefix]

\* window.location.hash = '#/home'
UltimateFallback(loc) == [loc EXCEPT !.hash = HomeHash]

NeedsFallbackInverted(loc, cleanPath) == IndexOf(loc.pathname, cleanPath) # NotFound

\* document.location.pathname.indexOf(cleanPath) === -1
NeedsFallback(loc, cleanPath) == IndexOf(loc.pathname, cleanPath) = NotFound

\* window.location.href = '#/' + cleanPath
DirectFallback(loc, cleanPath) == [loc EXCEPT !.hash = HashPrefix \o cleanPath]

\* 1 for an attempt made after unmount
Late == IF mounted THEN 0 ELSE 1

----------------------------------------------------------------------------
\* The instance after its first render and effect: props as the parent passed
\* them, the 1500 timer scheduled, nothing done yet.
InitInstance ==
    /\ mounted = TRUE
    /\ onComplete \in {NoCallback} \cup Callbacks
    /\ redirectTo \in RedirectValues
    /\ navigate = "nav1"
    /\ timers = {OuterTimer(1, onComplete, redirectTo, navigate)}
    /\ effectTimer = 1
    /\ nextId = 2
    /\ location \in [pathname : Pathnames, hash : {<<>>}]
    /\ calls = 0
    /\ navLog = <<>>
    /\ writes = <<>>
    /\ logs = 0
    /\ thrown = 0
    /\ escaped = 0
    /\ fired = 0
    /\ checked = 0
    /\ changes = 0
    /\ propsChanged = FALSE
    /\ earlyUnmount = FALSE
    /\ late = 0

\* Every combination of props and pathname, in a browser with no dark marker,
\* no stored theme and a light system appearance.
Init ==
    /\ InitInstance
    /\ rootDark = FALSE
    /\ localStorage = NoItems
    /\ prefersDark = FALSE
    /\ darkClass = IsDarkMode(rootDark, localStorage, prefersDark)

\* Every theme environment, for an instance mounted with redirectTo = "/menu".
InitTheme ==
    /\ InitInstance
    /\ onComplete = NoCallback
    /\ redirectTo = Str(<<"/">> \o Menu)
    /\ location.pathname = <<"/">>
    /\ rootDark \in BOOLEAN
    /\ localStorage \in Stores
    /\ prefersDark \in BOOLEAN
    /\ darkClass = IsDarkMode(rootDark, localStorage, prefersDark)

\* A render with a changed dependency: the effect's cleanup, then the effect.
Rerender(oc, rt, nav) ==
    /\ mounted
    /\ changes < MaxChanges
    /\ <<oc, rt, nav>> # props
    /\ onComplete' = oc
    /\ redirectTo' = rt
    /\ navigate' = nav
    /\ darkClass' = IsDarkMode(rootDark, localStorage, prefersDark)
    /\ timers' = Cleanup(timers, effectTimer) \cup {OuterTimer(nextId, oc, rt, nav)}
    /\ effectTimer' = nextId
    /\ nextId' = nextId + 1
    /\ changes' = changes + 1
    /\ propsChanged' = (propsChanged \/ oc # onComplete \/ rt # redirectTo)
    /\ UNCHANGED <<mounted, location, rootDark, localStorage, prefersDark, hist,
                   earlyUnmount>>

ChangeOnComplete == \E oc \in {NoCallback} \cup Callbacks : Rerender(oc, redirectTo, navigate)

ChangeRedirectTo == \E rt \in RedirectValues : Rerender(onComplete, rt, navigate)

ChangeNavigate == \E nav \in Navigates : Rerender(onComplete, redirectTo, nav)

Unmount ==
    /\ mounted
    /\ mounted' = FALSE
    /\ timers' = Cleanup(timers, effectTimer)
    /\ earlyUnmount' = (fired = 0)
    /\ UNCHANGED <<props, effectTimer, nextId, location, env, hist, changes,
                   propsChanged>>

\* Time passes, up to the moment the next timer is due.
Advance ==
    /\ timers # {}
    /\ MinRemaining(timers) > 0
    /\ LET d == Min(TimeStep, MinRemaining(timers))
       IN  timers' = {[t EXCEPT !.remaining = t.remaining - d] : t \in timers}
    /\ UNCHANGED <<mounted, props, effectTimer, nextId, location, env, hist, changes,
                   propsChanged, earlyUnmount>>

\* catch (error) { console.error(...); window.location.hash = '#/home'; }
Catch(t, branch) ==
    /\ thrown' = thrown + 1
    /\ timers' = timers \ {t}
    /\ nextId' = nextId
    /\ IF InTry(branch)
       THEN /\ logs' = logs + 1
            /\ location' = UltimateFallback(location)
            /\ writes' = Append(writes, HomeHash)
            /\ escaped' = escaped
            /\ late' = late + Late + (IF branch = "callback" THEN 0 ELSE Late)
       ELSE /\ escaped' = escaped + 1
            /\ late' = late + (IF branch = "callback" THEN 0 ELSE Late)
            /\ UNCHANGED <<logs, location, writes>>

\* The 1500 timer fires: the callback passed to the outer setTimeout.
OuterFire ==
    \E t \in timers, outcome \in {"effect", "noeffect", "throw"} :
        /\ t.kind = "outer"
        /\ t.remaining = 0
        /\ fired' = fired + 1
        /\ LET branch == Branch(t.onComplete, t.redirectTo)
               cleanPath == StripLeadingSlash(t.redirectTo.str)
           IN  \/ /\ branch = "callback"
                  /\ outcome # "noeffect"
                  /\ calls' = calls + 1
                  /\ navLog' = navLog
                  /\ IF outcome = "throw" THEN Catch(t, branch)
                     ELSE /\ timers' = timers \ {t}
                          /\ UNCHANGED <<nextId, location, writes, logs, thrown,
                                         escaped, late>>
               \/ /\ branch = "redirect"
                  /\ calls' = calls
                  /\ navLog' = Append(navLog, cleanPath)
                  /\ IF outcome = "throw" THEN Catch(t, branch)
                     ELSE /\ location' =
                                IF outcome = "effect"
                                THEN [location EXCEPT
                                        !.pathname = Resolve(location.pathname, cleanPath)]
                                ELSE location
                          /\ timers' = (timers \ {t}) \cup {CheckTimer(nextId, cleanPath)}
                          /\ nextId' = nextId + 1
                          /\ late' = late + Late
                          /\ UNCHANGED <<writes, logs, thrown, escaped>>
               \/ /\ branch = "default"
                  /\ calls' = calls
                  /\ navLog' = Append(navLog, HomePath)
                  /\ IF outcome = "throw" THEN Catch(t, branch)
                     ELSE /\ location' =
                                IF outcome = "effect"
                                THEN [location EXCEPT
                                        !.pathname = Resolve(location.pathname, HomePath)]
                                ELSE location
                          /\ timers' = timers \ {t}
                          /\ late' = late + Late
                          /\ UNCHANGED <<nextId, writes, logs, thrown, escaped>>
        /\ UNCHANGED <<mounted, props, effectTimer, env, checked, changes, propsChanged,
                       earlyUnmount>>

\* The 300 timer fires: the callback passed to the inner setTimeout.
InnerFire ==
    \E t \in timers :
        /\ t.kind = "check"
        /\ t.remaining = 0
        /\ timers' = timers \ {t}
        /\ checked' = checked + 1
        /\ IF NeedsFallback(location, t.cleanPath)
           THEN /\ location' = DirectFallback(location, t.cleanPath)
                /\ writes' = Append(writes, HashPrefix \o t.cleanPath)
                /\ late' = late + Late
           ELSE UNCHANGED <<location, writes, late>>
        /\ UNCHANGED <<mounted, props, effectTimer, nextId, env, calls, navLog, logs,
                       thrown, escaped, fired, changes, propsChanged, earlyUnmount>>

Next ==
    \/ ChangeOnComplete
    \/ ChangeRedirectTo
    \/ ChangeNavigate
    \/ Unmount
    \/ Advance
    \/ OuterFire
    \/ InnerFire

Spec == Init /\ [][Next]_vars

SpecTheme == InitTheme /\ [][Next]_vars

\* The 300 check when the location access in it throws (the read of
\* document.location.pathname, or the write of window.location.href): the
\* callback runs from the timer queue, after the try block that scheduled it
\* has been left, so nothing catches the exception.
InnerFireThrows ==
    \E t \in timers, at \in {"read", "write"} :
        /\ t.kind = "check"
        /\ t.remaining = 0
        /\ at = "write" => NeedsFallback(location, t.cleanPath)
        /\ timers' = timers \ {t}
        /\ checked' = checked + 1
        /\ escaped' = escaped + 1
        /\ UNCHANGED <<mounted, props, effectTimer, nextId, location, env, calls,
                       navLog, writes, logs, thrown, fired, late, changes,
                       propsChanged, earlyUnmount>>

\* The instance in an environment whose location can fail.
SpecFault == Init /\ [][Next \/ InnerFireThrows]_vars

\* The browser's event loop: time passes while a timer is pending, and a due
\* timer's callback is run.
Fairness == WF_vars(Advance) /\ WF_vars(OuterFire) /\ WF_vars(InnerFire)

\* An instance mounted at "/" with redirectTo = "menu", with or without a callback.
InitFair ==
    /\ Init
    /\ onComplete \in {NoCallback, "cb1"}
    /\ redirectTo = Str(Menu)
    /\ location.pathname = <<"/">>

SpecFair == InitFair /\ [][Next]_vars /\ Fairness


----------------------------------------------------------------------------
(* Properties.                                                             *)

\* the step fires the 1500 timer t
Fires(t) ==
    /\ t \in timers
    /\ t.kind = "outer"
    /\ t.remaining = 0
    /\ t \notin timers'
    /\ fired' = fired + 1

\* the step runs the 300 check t
Checks(t) ==
    /\ t \in timers
    /\ t.kind = "check"
    /\ t.remaining = 0
    /\ t \notin timers'
    /\ checked' = checked + 1

ChecksOf(ts) == {t \in ts : t.kind = "check"}

\* sub occurs somewhere in s
Contains(s, sub) ==
    \E i \in 1..(Len(s) - Len(sub) + 1) : SubSeq(s, i, i + Len(sub) - 1) = sub

\* s without one leading '/', if it has one
OneSlashRemoved(s) == IF s # <<>> /\ Head(s) = "/" THEN Tail(s) ELSE s

C2_HomeExactlyOnce ==
    (~propsChanged /\ onComplete = NoCallback /\ redirectTo = Undefined /\ fired >= 1)
        => navLog = <<HomePath>>

C4_FallbackIffNotReflected ==
    [][/\ \A c \in ChecksOf(timers') :
            c.id \notin {t.id : t \in timers} =>
                /\ c.remaining = CheckDelay
                /\ navLog' = Append(navLog, c.cleanPath)
       /\ \A t \in timers :
            Checks(t) =>
                IF Contains(location.pathname, t.cleanPath)
                THEN writes' = writes /\ location' = location
                ELSE /\ writes' = Append(writes, HashPrefix \o t.cleanPath)
                     /\ location' =
                            [location EXCEPT !.hash = HashPrefix \o t.cleanPath]]_vars

C4_Witness ==
    /\ checked = 1
    /\ fired = 1
    /\ navLog = <<Menu>>
    /\ location.pathname = <<"/">>
    /\ writes = <<HashPrefix \o Menu>>
    /\ location.hash = HashPrefix \o Menu

\* C5: once an instance has unmounted before any 1500 timer fired, onComplete
\* has not been invoked, navigate has not been requested, the location has not
\* been written, and no timer is left that could do any of it later.
C5_EarlyUnmountSilent ==
    earlyUnmount =>
        /\ calls = 0
        /\ navLog = <<>>
        /\ writes = <<>>
        /\ location.hash = <<>>
        /\ fired = 0
        /\ timers = {}

C5_Witness ==
    /\ earlyUnmount
    /\ ~mounted
    /\ changes >= 1

\* C6: whenever onComplete or navigate throws in the timer callback, that step
\* sets the location hash to '#/home' and writes one log entry, and no
\* exception ever leaves the callback.
C6_ThrowCaught ==
    /\ [][thrown' = thrown + 1 =>
            /\ location'.hash = HomeHash
            /\ location'.pathname = location.pathname
            /\ logs' = logs + 1
            /\ escaped' = escaped]_vars
    /\ [](escaped = 0 /\ logs = thrown)

C6_Witness ==
    /\ thrown = 1
    /\ logs = 1
    /\ escaped = 0
    /\ navLog = <<HomePath>>
    /\ location.hash = HomeHash

\* C7: a mounted instance never has more than one active timer, the 1500
\* timer and the 300 check counted together.
C7_AtMostOneTimer == mounted => Cardinality(timers) <= 1

\* C8: no timer of the instance acts once it is unmounted: no navigate
\* request and no location write is made after the unmount.
C8_NothingAfterUnmount == ~mounted => late = 0

\* the code's notion of "no stored theme preference": no item, or an empty one
NoStoredTheme == "theme" \notin DOMAIN localStorage \/ localStorage["theme"] = ""

\* C9: the rendered dark-mode flag equals (root has the dark marker) or (no
\* stored theme preference and the environment prefers dark); with a stored
\* preference and no root marker it is false, whatever the environment prefers.
C9_DarkModeFlag ==
    /\ darkClass = (rootDark \/ (NoStoredTheme /\ prefersDark))
    /\ (~NoStoredTheme /\ ~rootDark) => ~darkClass

C9_Witness ==
    /\ ~NoStoredTheme
    /\ ~rootDark
    /\ prefersDark
    /\ ~darkClass

\* C10: every active 1500 timer belongs to the mounted instance's latest
\* effect run and carries the current onComplete, redirectTo and navigate: a
\* timer pending when a dependency changed is gone, and what fires evaluates
\* the current values.
C10_NoStaleTimer ==
    \A t \in timers :
        t.kind = "outer" =>
            /\ mounted
            /\ t.id = effectTimer
            /\ t.onComplete = onComplete
            /\ t.redirectTo = redirectTo
            /\ t.navigate = navigate

C10_Witness ==
    /\ mounted
    /\ changes = 1
    /\ propsChanged
    /\ fired = 1
    /\ timers = {}
    /\ redirectTo = Str(Menu)
    /\ navLog = <<Menu>>


\* C11: within one mounted lifetime the post-timer action is dispatched at most
\* once: after the 1500 timer has fired, no later step of the same instance
\* fires a 1500 timer again, whatever changes after the firing.
C11_NoReentry == fired <= 1


\* C12: an unmount leaves a pending 300 check in place; nothing but its own
\* run removes a check, so the check still runs after the unmount, and when it
\* runs unmounted and the pathname does not
\* contain the normalized path it writes '#/' + path to the location.
C12_CheckSurvivesUnmount ==
    /\ [][(mounted /\ ~mounted') => ChecksOf(timers') = ChecksOf(timers)]_vars
    /\ [][\A t \in timers :
            (Checks(t) /\ ~mounted) =>
                IF Contains(location.pathname, t.cleanPath)
                THEN writes' = writes /\ location' = location /\ late' = late
                ELSE /\ writes' = Append(writes, HashPrefix \o t.cleanPath)
                     /\ location'.hash = HashPrefix \o t.cleanPath
                     /\ late' = late + 1]_vars
    /\ [][\A t \in ChecksOf(timers) :
            t.id \notin {u.id : u \in timers'} => (Checks(t) /\ checked' = checked + 1)]_vars
    /\ (~mounted /\ ChecksOf(timers) # {}) ~> (ChecksOf(timers) = {})

C12_Witness ==
    /\ ~mounted
    /\ fired = 1
    /\ checked = 1
    /\ late = 1
    /\ navLog = <<Menu>>
    /\ writes = <<HashPrefix \o Menu>>
    /\ location.hash = HashPrefix \o Menu


\* C13: no exception leaves a timer callback uncaught, also when the location
\* access inside the 300 check fails.
C13_AllFailuresCaught == escaped = 0


\* the step schedules a 300 check
SchedulesCheck == \E c \in ChecksOf(timers') : c.id \notin {t.id : t \in timers}

\* C14: a 300 check is scheduled only by a firing of the redirect branch whose
\* navigate request returned, never by the callback or the default branch; a
\* location write is either the check's '#/' + path for a path navigate was
\* asked for, or the catch block's '#/home'; and when navigate throws in the
\* redirect branch that step schedules no check and leaves the hash at '#/home'.
C14_FallbackOnlyAfterRedirect ==
    /\ [][SchedulesCheck =>
            \E t \in timers :
                /\ Fires(t)
                /\ t.onComplete = NoCallback
                /\ Truthy(t.redirectTo)
                /\ thrown' = thrown
                /\ navLog' = Append(navLog, OneSlashRemoved(t.redirectTo.str))]_vars
    /\ [][\A t \in timers :
            (Fires(t) /\ t.onComplete = NoCallback /\ Truthy(t.redirectTo)
                /\ thrown' = thrown + 1) =>
                    /\ ~SchedulesCheck
                    /\ location'.hash = HomeHash
                    /\ writes' = Append(writes, HomeHash)
                    /\ navLog' = Append(navLog, OneSlashRemoved(t.redirectTo.str))]_vars
    /\ [][writes' # writes =>
            \/ thrown' = thrown + 1 /\ writes' = Append(writes, HomeHash)
            \/ \E t \in timers :
                    Checks(t) /\ writes' = Append(writes, HashPrefix \o t.cleanPath)]_vars
    /\ [](\A i \in DOMAIN writes :
            \/ writes[i] = HomeHash
            \/ \E j \in DOMAIN navLog : writes[i] = HashPrefix \o navLog[j])

C14_Witness ==
    /\ onComplete = NoCallback
    /\ redirectTo = Str(<<"/">> \o Menu)
    /\ ~propsChanged
    /\ fired = 1
    /\ thrown = 1
    /\ navLog = <<Menu>>
    /\ timers = {}
    /\ checked = 0
    /\ location.hash = HomeHash


OutersOf(ts) == {t \in ts : t.kind = "outer"}

\* C15: while the instance stays mounted a pending 1500 timer is eventually
\* fired once the dependencies stop changing, and a 1500 timer leaves a
\* mounted instance only by firing; each dependency change dispatches nothing
\* and leaves exactly one 1500 timer, new and with the full 1500 ahead of it,
\* and a firing is always of the latest effect's timer with nothing of its
\* delay left: changes that come less than 1500 apart keep the action from
\* being dispatched.
C15_DispatchedWhenStable ==
    /\ (mounted /\ OutersOf(timers) # {}) ~> (~mounted \/ OutersOf(timers) = {})
    /\ [][(OutersOf(timers) # {} /\ OutersOf(timers') = {} /\ mounted') =>
            fired' = fired + 1]_vars
    /\ [][changes' = changes + 1 =>
            /\ fired' = fired
            /\ calls' = calls
            /\ navLog' = navLog
            /\ Cardinality(OutersOf(timers')) = 1
            /\ \A t \in OutersOf(timers') :
                    /\ t.remaining = Delay
                    /\ t.id \notin {u.id : u \in timers}]_vars
    /\ [][fired' = fired + 1 =>
            \E t \in OutersOf(timers) :
                t.id = effectTimer /\ t.remaining = 0 /\ t \notin timers']_vars

C15_Witness ==
    /\ mounted
    /\ changes = 2
    /\ fired = 1
    /\ timers = {}
    /\ calls = 1


\* C16: with no onComplete, the firing of a timer that captured redirectTo = ""
\* requests navigate('/home') and schedules no 300 check, as with no redirectTo
\* at all; the firing of one that captured redirectTo = "/" requests
\* navigate('') and schedules a check for the empty path; and a check for the
\* empty path never writes the location, whatever the pathname is.
C16_EmptyAndRootRedirect ==
    /\ [][\A t \in timers :
            (Fires(t) /\ t.onComplete = NoCallback /\ t.redirectTo = Str(<<>>)) =>
                /\ navLog' = Append(navLog, HomePath)
                /\ ~(\E c \in ChecksOf(timers') : c.id \notin {u.id : u \in timers})]_vars
    /\ [][\A t \in timers :
            (Fires(t) /\ t.onComplete = NoCallback /\ t.redirectTo = Str(<<"/">>)) =>
                /\ navLog' = Append(navLog, <<>>)
                /\ thrown' = thrown =>
                     \E c \in ChecksOf(timers') :
                        c.id \notin {u.id : u \in timers} /\ c.cleanPath = <<>>]_vars
    /\ [][\A t \in timers :
            (Checks(t) /\ t.cleanPath = <<>>) =>
                (writes' = writes /\ location' = location)]_vars

C16_Witness ==
    /\ onComplete = NoCallback
    /\ redirectTo = Str(<<"/">>)
    /\ ~propsChanged
    /\ fired = 1
    /\ checked = 1
    /\ navLog = << <<>> >>
    /\ writes = <<>>
    /\ location = [pathname |-> <<"/">> \o Menu, hash |-> <<>>]

====
